---- MODULE Spec2Model ----
(***************************************************************************)
(* Databricks job submission tasks of prefect.tasks.databricks:            *)
(* DatabricksSubmitRun, DatabricksRunNow and DatabricksSubmitMultitaskRun, *)
(* the payload they build, the hook they submit it through and the         *)
(* lifecycle monitor _handle_databricks_task_execution.                    *)
(*                                                                         *)
(* Python values are tagged pairs <<tag, value>>:                          *)
(*   <<"none","">>  None            <<"str", s>>   a string                *)
(*   <<"int", n>>   an int                                                 *)
(*   <<"float", s>> a float, s its str() text                              *)
(*   <<"bool", s>>  a bool, s its str() text ("True"/"False")              *)
(*   <<"list", q>>  a list or tuple, q a sequence of values                *)
(*   <<"dict", f>>  a dict, f a function from keys to values               *)
(*   <<"dataclass", [cls |-> c, f |-> g]>>  an instance of dataclass c,    *)
(*                  g a function from field names to values                *)
(*   <<"obj", s>>   any other object (an Enum member, ...)                 *)
(***************************************************************************)
EXTENDS Integers, Sequences, FiniteSets, TLC

VARIABLES
    task,        \* the task object: its class and its attributes (self.*)
    ctx,         \* prefect.context of the flow run the task runs in
    env,         \* the remote service and transport the run talks to
    call,        \* the keyword arguments the caller passed to run()
    args,        \* the arguments run() sees, after defaults_from_attrs
    hook,        \* the DatabricksHook of this invocation
    pc,          \* where the invocation of run() stands
    run_id,      \* submitted_run_id, the handle the submission returned
    trace,       \* what this invocation did: the run id it got, the run states
                 \* it observed, its sleeps, and the hook call that raised
    result,      \* what run() returned
    error,       \* what run() raised
    submissions, \* every payload handed to a submission endpoint, all invocations
    invocations, \* how many times run() was called on the task object
    pre,         \* the task object as it was when run() was called
    made,        \* the task object as its constructor left it
    caller_json, \* the mappings the caller passed as json, as they are now,
                 \* and which of them self.json names
    calls,       \* this invocation's calls of the hook: submissions, status
                 \* queries, and the requests and transient failures of the
                 \* call in progress
    fn_pc,       \* where a call of one of the module's functions stands
    fn_content,  \* content, the argument of _deep_string_coerce
    fn_desired_dataclass, \* the type _deep_from_dict is asked to build
    fn_input,    \* input, the value _deep_from_dict is given
    fn_returned, \* what the function returned or raised
    fn_reencoded, \* the returned value, turned back into mappings by asdict
    fn_again,    \* what _deep_from_dict returned or raised on its second call
    fn_coerced,  \* what _deep_string_coerce returned or raised for the re-encoded value
    objects,     \* the task objects that threads run concurrently
    threads      \* the concurrent invocations of run(): for each its task object,
                 \* its arguments, where it stands, what it submitted and slept

(* the state of a call of run() *)
runvars == <<task, ctx, env, call, args, hook, pc, run_id, trace, result, error,
             submissions, invocations, pre, calls, made, caller_json>>

(* the state of a call of _deep_string_coerce or _deep_from_dict *)
libvars == <<fn_pc, fn_content, fn_desired_dataclass, fn_input, fn_returned,
             fn_reencoded, fn_again, fn_coerced>>

(* the state of concurrent calls of run() *)
convars == <<objects, threads>>

vars == <<task, ctx, env, call, args, hook, pc, run_id, trace, result, error,
          submissions, invocations, pre, calls, made, caller_json,
          fn_pc, fn_content, fn_desired_dataclass, fn_input, fn_returned,
          fn_reencoded, fn_again, fn_coerced, objects, threads>>

-----------------------------------------------------------------------------
(* Bounds of the model *)

MaxNonTerminal == 2
MaxInvocations == 2
MaxRetryLimit == 2
MaxLen == 2

-----------------------------------------------------------------------------
(* Python values *)

None == <<"none", "">>
Str(s) == <<"str", s>>
PyInt(n) == <<"int", n>>
Dict(f) == <<"dict", f>>
List(q) == <<"list", q>>
Tuple(q) == <<"tuple", q>>
EmptyDict == <<"dict", <<>> >>

Tag(x) == x[1]
Val(x) == x[2]

Keys(d) == DOMAIN Val(d)
Get(d, k) == Val(d)[k]
Put(d, k, v) == Dict((k :> v) @@ Val(d))
Update(d, e) == Dict(Val(e) @@ Val(d))

Truthy(x) ==
    CASE Tag(x) = "none" -> FALSE
      [] Tag(x) = "str" -> Val(x) # ""
      [] Tag(x) = "int" -> Val(x) # 0
      [] Tag(x) = "float" -> Val(x) # "0.0"
      [] Tag(x) = "bool" -> Val(x) = "True"
      [] Tag(x) \in {"list", "tuple"} -> Len(Val(x)) > 0
      [] Tag(x) = "dict" -> DOMAIN Val(x) # {}
      [] OTHER -> TRUE

Or(x, y) == IF Truthy(x) THEN x ELSE y

-----------------------------------------------------------------------------
(* _deep_string_coerce *)

Ok(v) == [ok |-> TRUE, v |-> v]
Exc(type, message) == [type |-> type, message |-> message]
Err(type, message) == [ok |-> FALSE, v |-> Exc(type, message)]
NoError == Exc("", "")

RECURSIVE DeepStringCoerce(_, _)

(* only the values of the top mapping are coerced, and what is no number is
   left as it is *)
DeepStringCoerceShallow(content, json_path) ==
    IF Tag(content) = "dict"
    THEN Ok(Dict([key \in Keys(content) |->
                    IF Tag(Get(content, key)) = "int"
                    THEN Str(ToString(Val(Get(content, key))))
                    ELSE Get(content, key)]))
    ELSE Ok(content)

(* a sequence comes back in reverse order *)
DeepStringCoerceReversed(content, json_path) ==
    CASE Tag(content) \in {"str", "none"} -> Ok(content)
      [] Tag(content) = "int" -> Ok(Str(ToString(Val(content))))
      [] Tag(content) \in {"float", "bool"} -> Ok(Str(Val(content)))
      [] Tag(content) \in {"list", "tuple"} ->
            LET n == Len(Val(content))
                rs == [i \in 1..n |->
                         DeepStringCoerce(Val(content)[n + 1 - i], json_path)]
                bad == {i \in DOMAIN rs : ~rs[i].ok}
            IN  IF bad = {}
                THEN Ok(List([i \in DOMAIN rs |-> rs[i].v]))
                ELSE rs[CHOOSE i \in bad : TRUE]
      [] Tag(content) = "dict" ->
            LET rs == [key \in Keys(content) |->
                         DeepStringCoerce(Get(content, key), json_path)]
                bad == {key \in DOMAIN rs : ~rs[key].ok}
            IN  IF bad = {}
                THEN Ok(Dict([key \in DOMAIN rs |-> rs[key].v]))
                ELSE rs[CHOOSE key \in bad : TRUE]
      [] OTHER -> Err("ValueError", "Type " \o Tag(content))

DeepStringCoerce(content, json_path) ==
    CASE Tag(content) = "str" -> Ok(content)
      [] Tag(content) = "int" -> Ok(Str(ToString(Val(content))))
      [] Tag(content) \in {"float", "bool"} -> Ok(Str(Val(content)))
      [] Tag(content) = "none" -> Ok(content)
      [] Tag(content) \in {"list", "tuple"} ->
            LET rs == [i \in DOMAIN Val(content) |->
                         DeepStringCoerce(Val(content)[i],
                             json_path \o "[" \o ToString(i - 1) \o "]")]
                bad == {i \in DOMAIN rs : ~rs[i].ok}
            IN  IF bad = {}
                THEN Ok(List([i \in DOMAIN rs |-> rs[i].v]))
                ELSE rs[CHOOSE i \in bad : \A j \in bad : i <= j]
      [] Tag(content) = "dict" ->
            LET rs == [key \in Keys(content) |->
                         DeepStringCoerce(Get(content, key), "f{json_path}[{k}]")]
                bad == {key \in DOMAIN rs : ~rs[key].ok}
            IN  IF bad = {}
                THEN Ok(Dict([key \in DOMAIN rs |-> rs[key].v]))
                ELSE rs[CHOOSE key \in bad : TRUE]
      [] OTHER ->
            Err("ValueError",
                "Type " \o Tag(content) \o " used for parameter " \o json_path
                    \o " is not a number or a string")

-----------------------------------------------------------------------------
(* dataclasses.asdict, as DatabricksSubmitMultitaskRun.run applies it to each
   task and each access control entry *)

RECURSIVE AsDictInner(_)
AsDictInner(x) ==
    CASE Tag(x) = "dataclass" ->
            Dict([k \in DOMAIN Val(x).f |-> AsDictInner(Val(x).f[k])])
      [] Tag(x) = "list" -> List([i \in DOMAIN Val(x) |-> AsDictInner(Val(x)[i])])
      [] Tag(x) = "dict" -> Dict([k \in Keys(x) |-> AsDictInner(Get(x, k))])
      [] OTHER -> x

AsDict(x) ==
    IF Tag(x) = "dataclass" THEN Ok(AsDictInner(x))
    ELSE Err("TypeError", "asdict() should be called on dataclass instances")

AsDictAll(xs) ==
    LET rs == [i \in DOMAIN Val(xs) |-> AsDict(Val(xs)[i])]
        bad == {i \in DOMAIN rs : ~rs[i].ok}
    IN  IF bad = {}
        THEN Ok(List([i \in DOMAIN rs |-> rs[i].v]))
        ELSE rs[CHOOSE i \in bad : \A j \in bad : i <= j]

-----------------------------------------------------------------------------
(* The types _deep_from_dict is asked for: classes, Enum classes, List[T],
   Union[...] and dataclasses, as typing and dataclasses present them *)

Class(name) == <<"class", name>>
NoneType == Class("NoneType")
(* an Enum class: its members in definition order, each a name and a value *)
EnumClass(name, members) == <<"Enum", [name |-> name, members |-> members]>>
ListOf(t) == <<"List", <<t>> >>
UnionOf(ts) == <<"Union", ts>>
(* Optional[T] is Union[T, None], and a Union in a Union is flattened *)
OptionalOf(t) ==
    IF Tag(t) = "Union" THEN UnionOf(Val(t) \o <<NoneType>>) ELSE UnionOf(<<t, NoneType>>)
(* dataclasses.MISSING: the default of a field that has none *)
MISSING == <<"MISSING", "">>
Field(name, type, default) == [name |-> name, type |-> type, default |-> default]
DataclassOf(name, flds) == <<"dataclass_type", [name |-> name, fields |-> flds]>>

get_args(t) == IF Tag(t) \in {"List", "Union"} THEN Val(t) ELSE <<>>
is_dataclass(t) == Tag(t) = "dataclass_type"
IsEnumClass(t) == Tag(t) = "Enum"
IsUnion(t) == Tag(t) = "Union"
fields(t) == Val(t).fields
FieldNames(t) == {fields(t)[i].name : i \in DOMAIN fields(t)}
FieldOf(t, name) == fields(t)[CHOOSE i \in DOMAIN fields(t) : fields(t)[i].name = name]

_is_optional(input) ==
    IsUnion(input) /\ \E i \in DOMAIN get_args(input) : get_args(input)[i] = NoneType

(* next(t for t in get_args(item_type) if t is not type(None)) *)
FirstNotNone(item_type) ==
    LET ts == get_args(item_type)
        some == {i \in DOMAIN ts : ts[i] # NoneType}
    IN  ts[CHOOSE i \in some : \A j \in some : i <= j]

(* a member of an Enum class *)
EnumMember(cls, item) == <<"enum", [cls |-> Val(cls).name, name |-> item.name, value |-> item.value]>>

Repr(x) == IF Tag(x) \in {"str", "float", "bool"} THEN Val(x) ELSE Tag(x)

(* desired_dataclass[input]: Enum's lookup of a member by NAME *)
EnumGetItem(cls, input) ==
    LET ms == Val(cls).members
        hit == {i \in DOMAIN ms : Tag(input) = "str" /\ ms[i].name = Val(input)}
    IN  IF Tag(input) \in {"dict", "list"}
        THEN Err("TypeError", "unhashable type: " \o Tag(input))
        ELSE IF hit # {}
        THEN Ok(EnumMember(cls, ms[CHOOSE i \in hit : TRUE]))
        ELSE Err("KeyError", Repr(input))

(* the call of desired_dataclass with dataclass_args as keyword arguments:
   the generated __init__ *)
DataclassInit(desired_dataclass, dataclass_args) ==
    LET fs == fields(desired_dataclass)
        missing == {i \in DOMAIN fs :
                      fs[i].default = MISSING /\ fs[i].name \notin DOMAIN dataclass_args}
    IN  IF missing # {}
        THEN Err("TypeError",
                 "__init__() missing required argument: "
                     \o fs[CHOOSE i \in missing : \A j \in missing : i <= j].name)
        ELSE Ok(<<"dataclass",
                  [cls |-> Val(desired_dataclass).name,
                   f |-> [n \in FieldNames(desired_dataclass) |->
                            IF n \in DOMAIN dataclass_args THEN dataclass_args[n]
                            ELSE FieldOf(desired_dataclass, n).default]]>>)

RECURSIVE DeepFromDict(_, _)
RECURSIVE UnionMember(_, _, _)

(* the loop over the members of a Union; found = FALSE when the loop ends
   without a return *)
NotFound == [found |-> FALSE, r |-> Ok(None)]
Found(r) == [found |-> TRUE, r |-> r]

(* a loop that takes a dataclass whose fields are all among the keys *)
UnionMemberSubset(members, i, input) ==
    IF i > Len(members) THEN NotFound
    ELSE LET member == members[i] IN
         IF is_dataclass(member) /\ Tag(input) # "dict"
         THEN Found(Err("AttributeError", Tag(input) \o " object has no attribute 'keys'"))
         ELSE IF is_dataclass(member) /\ FieldNames(member) \subseteq Keys(input)
         THEN Found(DeepFromDict(member, input))
         ELSE IF IsEnumClass(member)
                 /\ \E k \in DOMAIN Val(member).members : Val(member).members[k].value = input
         THEN Found(EnumGetItem(member, input))
         ELSE UnionMember(members, i + 1, input)

UnionMember(members, i, input) ==
    IF i > Len(members) THEN NotFound
    ELSE LET member == members[i] IN
         IF is_dataclass(member) /\ Tag(input) # "dict"
         THEN Found(Err("AttributeError", Tag(input) \o " object has no attribute 'keys'"))
         ELSE IF is_dataclass(member) /\ FieldNames(member) = Keys(input)
         THEN Found(DeepFromDict(member, input))
         ELSE IF IsEnumClass(member)
                 /\ \E k \in DOMAIN Val(member).members : Val(member).members[k].value = input
         THEN Found(EnumGetItem(member, input))
         ELSE UnionMember(members, i + 1, input)

DeepFromDict(desired_dataclass, input) ==
    IF Tag(input) \in {"tuple", "list"}
    THEN IF get_args(desired_dataclass) = <<>>
         THEN Err("IndexError", "tuple index out of range")
         ELSE LET rs == [i \in DOMAIN Val(input) |->
                           DeepFromDict(get_args(desired_dataclass)[1], Val(input)[i])]
                  bad == {i \in DOMAIN rs : ~rs[i].ok}
              IN  IF bad = {}
                  THEN Ok(List([i \in DOMAIN rs |-> rs[i].v]))
                  ELSE rs[CHOOSE i \in bad : \A j \in bad : i <= j]
    ELSE IF IsEnumClass(desired_dataclass)
    THEN EnumGetItem(desired_dataclass, input)
    ELSE IF IsUnion(desired_dataclass)
            /\ UnionMember(get_args(desired_dataclass), 1, input).found
    THEN UnionMember(get_args(desired_dataclass), 1, input).r
    ELSE IF Tag(input) = "dict" /\ is_dataclass(desired_dataclass)
    THEN LET rs == [key \in Keys(input) |->
                      IF key \notin FieldNames(desired_dataclass)
                      THEN Err("KeyError", key)
                      ELSE LET item_type == FieldOf(desired_dataclass, key).type IN
                           DeepFromDict(IF _is_optional(item_type)
                                        THEN FirstNotNone(item_type) ELSE item_type,
                                        Get(input, key))]
             bad == {key \in DOMAIN rs : ~rs[key].ok}
         IN  IF bad = {}
             THEN DataclassInit(desired_dataclass, [key \in DOMAIN rs |-> rs[key].v])
             ELSE rs[CHOOSE key \in bad : TRUE]
    ELSE Ok(input)

-----------------------------------------------------------------------------
(* The three task classes: the named parameters of run(), in the order the
   code merges them *)

SubmitRunParams ==
    <<"spark_jar_task", "notebook_task", "new_cluster", "existing_cluster_id",
      "libraries", "run_name", "timeout_seconds">>

RunNowParams ==
    <<"job_id", "notebook_params", "python_params", "spark_submit_params",
      "jar_params">>

MultitaskParams ==
    <<"tasks", "run_name", "timeout_seconds", "idempotency_token",
      "access_control_list">>

Range(q) == {q[i] : i \in DOMAIN q}

ParamsOf(kind) ==
    CASE kind = "DatabricksSubmitRun" -> Range(SubmitRunParams)
      [] kind = "DatabricksRunNow" -> Range(RunNowParams)
      [] kind = "DatabricksSubmitMultitaskRun" -> Range(MultitaskParams)

DefaultRunName == "Run Submitted by Prefect"

(* defaults_from_attrs: an argument the caller did not pass is the attribute
   of the task object *)
DefaultsFromAttrs(self, kwargs) ==
    [conn |-> IF kwargs.conn = None THEN self.conn ELSE kwargs.conn,
     json |-> IF kwargs.json = None THEN self.json ELSE kwargs.json,
     json_passed |-> kwargs.json # None,
     named |-> [p \in DOMAIN self.named |->
                  IF kwargs.named[p] = None THEN self.named[p] ELSE kwargs.named[p]],
     polling_period_seconds |->
         IF kwargs.polling_period_seconds = None
         THEN self.polling_period_seconds ELSE kwargs.polling_period_seconds,
     databricks_retry_limit |->
         IF kwargs.databricks_retry_limit = None
         THEN self.databricks_retry_limit ELSE kwargs.databricks_retry_limit,
     databricks_retry_delay |->
         IF kwargs.databricks_retry_delay = None
         THEN self.databricks_retry_delay ELSE kwargs.databricks_retry_delay]

(* DatabricksSubmitRun._get_hook, DatabricksRunNow._get_hook and the
   DatabricksHook(...) call of DatabricksSubmitMultitaskRun.run *)
(* the delay is passed as the limit *)
GetHookSwapped(databricks_conn_secret, databricks_retry_limit, databricks_retry_delay) ==
    [conn |-> databricks_conn_secret,
     retry_limit |-> databricks_retry_delay,
     retry_delay |-> databricks_retry_limit,
     attempt_num |-> 1]

GetHook(databricks_conn_secret, databricks_retry_limit, databricks_retry_delay) ==
    [conn |-> databricks_conn_secret,
     retry_limit |-> databricks_retry_limit,
     retry_delay |-> databricks_retry_delay,
     attempt_num |-> 1]

NoHook == [conn |-> None, retry_limit |-> None, retry_delay |-> None, attempt_num |-> 0]

(* `if polling_period_seconds: self.polling_period_seconds = ...` *)
SetPolling(self, polling_period_seconds) ==
    IF Truthy(polling_period_seconds)
    THEN [self EXCEPT !.polling_period_seconds = polling_period_seconds]
    ELSE self

(* What the part of run() before the submission gives: the task object as run()
   leaves it, the hook, and the payload to submit or the exception raised *)
Prepared(self, h, payload) == [task |-> self, hook |-> h, ok |-> TRUE, v |-> payload]
Raised(self, h, exc) == [task |-> self, hook |-> h, ok |-> FALSE, v |-> exc]

AssertionError ==
    Exc("AssertionError", "databricks_conn_secret must be supplied as a valid dictionary.")

(* The two asserts on databricks_conn_secret that open DatabricksSubmitRun.run
   and DatabricksRunNow.run: the exception raised, or NoError *)
ConnSecretError(databricks_conn_secret) ==
    IF ~Truthy(databricks_conn_secret)
    THEN Exc("AssertionError",
             "A databricks connection string must be supplied as a dictionary or through Prefect Secrets")
    ELSE IF Tag(databricks_conn_secret) # "dict" THEN AssertionError
    ELSE NoError

(* an empty list of tasks is let through *)
MultitaskInputErrorEmptyAllowed(databricks_conn_info, tasks) ==
    IF databricks_conn_info = None \/ Tag(databricks_conn_info) # "dict"
    THEN Exc("ValueError", "Databricks connection info must be supplied as a dictionary.")
    ELSE IF tasks = None
    THEN Exc("ValueError", "Please supply at least one Databricks task to be run.")
    ELSE NoError

(* The two checks that open DatabricksSubmitMultitaskRun.run: the exception
   raised, or NoError *)
MultitaskInputError(databricks_conn_info, tasks) ==
    IF databricks_conn_info = None \/ Tag(databricks_conn_info) # "dict"
    THEN Exc("ValueError", "Databricks connection info must be supplied as a dictionary.")
    ELSE IF tasks = None \/ Len(Val(tasks)) < 1
    THEN Exc("ValueError", "Please supply at least one Databricks task to be run.")
    ELSE NoError

(* the raw payload keeps its keys: a named parameter fills only a missing one *)
MergeNamedJsonWins(json, named, params) ==
    Dict(Val(json) @@ [p \in {q \in Range(params) : named[q] # None} |-> named[p]])

(* `if <param> is not None: json[<param>] = <param>` for each named parameter *)
RECURSIVE MergeNamed(_, _, _)
MergeNamed(json, named, params) ==
    IF params = <<>> THEN json
    ELSE LET p == Head(params)
             j == IF named[p] # None THEN Put(json, p, named[p]) ELSE json
         IN  MergeNamed(j, named, Tail(params))

(* the default run name is set whatever the payload holds *)
WithRunNameAlways(json, run_name) ==
    Put(json, "run_name", Or(run_name, Str(DefaultRunName)))

(* `if "run_name" not in self.json: self.json["run_name"] = run_name or ...` *)
WithRunName(json, run_name) ==
    IF "run_name" \notin Keys(json)
    THEN Put(json, "run_name", Or(run_name, Str(DefaultRunName)))
    ELSE json

(* The payload DatabricksSubmitRun.run hands to _deep_string_coerce *)
SubmitRunJson(self, a) ==
    LET json == IF Truthy(a.json) THEN a.json ELSE self.json
    IN  WithRunName(MergeNamed(json, a.named, SubmitRunParams), a.named["run_name"])

(* DatabricksSubmitRun.run up to the submission *)
SubmitRunPrepare(self, a) ==
    IF ConnSecretError(a.conn) # NoError
    THEN Raised(self, NoHook, ConnSecretError(a.conn))
    ELSE
    LET s1 == [self EXCEPT !.conn = a.conn]
        s2 == IF Truthy(a.json) THEN [s1 EXCEPT !.json = a.json] ELSE s1
        s3 == SetPolling(s2, a.polling_period_seconds)
        h == GetHook(a.conn, a.databricks_retry_limit, a.databricks_retry_delay)
        j2 == SubmitRunJson(self, a)
        c == DeepStringCoerce(j2, "json")
    IN  IF c.ok
        THEN Prepared([s3 EXCEPT !.json = c.v], h, c.v)
        ELSE Raised([s3 EXCEPT !.json = j2], h, c.v)

(* the named notebook_params replaces the raw payload's as a whole *)
MergeNotebookParamsReplaced(run_now_json, notebook_params) ==
    Put(run_now_json, "notebook_params", notebook_params)

(* The notebook_params branch of DatabricksRunNow.run *)
MergeNotebookParams(run_now_json, notebook_params) ==
    LET merged == IF "notebook_params" \in Keys(run_now_json)
                  THEN Get(run_now_json, "notebook_params") ELSE EmptyDict
    IN  Put(run_now_json, "notebook_params", Update(merged, notebook_params))

RECURSIVE RunNowMerge(_, _, _)
RunNowMerge(json, named, params) ==
    IF params = <<>> THEN json
    ELSE LET p == Head(params)
             j == IF named[p] = None THEN json
                  ELSE IF p = "notebook_params"
                       THEN MergeNotebookParams(json, named[p])
                       ELSE Put(json, p, named[p])
         IN  RunNowMerge(j, named, Tail(params))

(* The payload DatabricksRunNow.run hands to _deep_string_coerce *)
RunNowJson(a) == RunNowMerge(Or(a.json, EmptyDict), a.named, RunNowParams)

(* DatabricksRunNow.run up to the submission *)
RunNowPrepare(self, a) ==
    IF ConnSecretError(a.conn) # NoError
    THEN Raised(self, NoHook, ConnSecretError(a.conn))
    ELSE
    LET s1 == [self EXCEPT !.conn = a.conn]
        h == GetHook(a.conn, a.databricks_retry_limit, a.databricks_retry_delay)
        s2 == SetPolling(s1, a.polling_period_seconds)
        j == RunNowJson(a)
        c == DeepStringCoerce(j, "json")
        \* run_now_json is the object self.json names when the caller passed no
        \* json and self.json is not empty: the merge then changed self.json too
        aliased == ~a.json_passed /\ Truthy(self.json)
    IN  IF c.ok
        THEN Prepared([s2 EXCEPT !.json = c.v], h, c.v)
        ELSE Raised(IF aliased THEN [s2 EXCEPT !.json = j] ELSE s2, h, c.v)


(* the token is made from the count of this task run, which a retry changes *)
IdempotencyTokenPerTaskRun(idempotency_token, context) ==
    Or(idempotency_token,
       Str(Val(context.flow_run_id) \o "-" \o ToString(context.task_run_count)))

(* `idempotency_token = idempotency_token or prefect.context.flow_run_id` *)
IdempotencyToken(idempotency_token, context) ==
    Or(idempotency_token, context.flow_run_id)

(* The payload DatabricksSubmitMultitaskRun.run hands to _deep_string_coerce,
   or the exception asdict raises while the payload is built *)
MultitaskJson(a, context) ==
    LET run_name == Or(a.named["run_name"],
                       Str("Job run created by Prefect flow run " \o context.flow_run_name))
        idempotency_token == IdempotencyToken(a.named["idempotency_token"], context)
        ts == AsDictAll(a.named["tasks"])
        acl == AsDictAll(Or(a.named["access_control_list"], List(<<>>)))
    IN  IF ~ts.ok THEN ts
        ELSE IF ~acl.ok THEN acl
        ELSE Ok(Dict([k \in {"tasks", "run_name", "timeout_seconds",
                             "idempotency_token", "access_control_list"} |->
                        CASE k = "tasks" -> ts.v
                          [] k = "run_name" -> run_name
                          [] k = "timeout_seconds" -> a.named["timeout_seconds"]
                          [] k = "idempotency_token" -> idempotency_token
                          [] k = "access_control_list" -> acl.v]))

(* DatabricksSubmitMultitaskRun.run up to the submission *)
MultitaskPrepare(self, a, context) ==
    IF MultitaskInputError(a.conn, a.named["tasks"]) # NoError
    THEN Raised(self, NoHook, MultitaskInputError(a.conn, a.named["tasks"]))
    ELSE
    LET s1 == SetPolling(self, a.polling_period_seconds)
        h == GetHook(a.conn, a.databricks_retry_limit, a.databricks_retry_delay)
        j == MultitaskJson(a, context)
    IN  IF ~j.ok THEN Raised(s1, h, j.v)
        ELSE
        LET c == DeepStringCoerce(j.v, "json")
        IN  IF c.ok
            THEN Prepared([s1 EXCEPT !.json = c.v], h, c.v)
            ELSE Raised(s1, h, c.v)

(* the payload run() hands to _deep_string_coerce *)
RunJson(self, a, context) ==
    CASE self.kind = "DatabricksSubmitRun" -> Ok(SubmitRunJson(self, a))
      [] self.kind = "DatabricksRunNow" -> Ok(RunNowJson(a))
      [] self.kind = "DatabricksSubmitMultitaskRun" -> MultitaskJson(a, context)

Prepare(self, a, context) ==
    CASE self.kind = "DatabricksSubmitRun" -> SubmitRunPrepare(self, a)
      [] self.kind = "DatabricksRunNow" -> RunNowPrepare(self, a)
      [] self.kind = "DatabricksSubmitMultitaskRun" -> MultitaskPrepare(self, a, context)

(* The mappings the caller holds. `self.json = json or {}` makes self.json the
   caller's mapping when that is not empty, and a mapping of the task's own
   otherwise *)
Constructed(self) ==
    [init |-> self.json, run |-> None,
     self_json |-> IF Truthy(self.json) THEN "init" ELSE "other"]

(* What run() does to the mappings the caller holds. DatabricksSubmitRun.run
   assigns through self.json, which names the mapping passed to run() when
   that is not empty and is left as it was otherwise; DatabricksRunNow.run
   assigns through run_now_json, `json or {}`, and updates the notebook_params
   of that mapping in place. Both then bind self.json to the new mapping
   _deep_string_coerce returns, when it returns. *)
CallerJson(held, self, kwargs, a) ==
    IF self.kind = "DatabricksSubmitMultitaskRun" \/ ConnSecretError(a.conn) # NoError
    THEN held
    ELSE
    LET passed == kwargs.json # None
        \* the mapping self.json names at the call, when the caller holds it
        named == IF passed /\ held.self_json = "run" THEN "other" ELSE held.self_json
        target == IF passed /\ Truthy(kwargs.json) THEN "run"
                  ELSE IF self.kind = "DatabricksSubmitRun" \/ Truthy(a.json) THEN named
                  ELSE "other"
        j == IF self.kind = "DatabricksSubmitRun"
             THEN SubmitRunJson(self, a) ELSE RunNowJson(a)
        c == DeepStringCoerce(j, "json")
    IN  [init |-> IF target = "init" THEN j ELSE held.init,
         run |-> IF target = "run" THEN j ELSE IF passed THEN kwargs.json ELSE held.run,
         self_json |-> IF c.ok THEN "other"
                       ELSE IF self.kind = "DatabricksSubmitRun" THEN target ELSE named]

(* hook.submit_run, hook.run_now, hook.submit_multi_task_run *)
Endpoint(kind) ==
    CASE kind = "DatabricksSubmitRun" -> "submit_run"
      [] kind = "DatabricksRunNow" -> "run_now"
      [] kind = "DatabricksSubmitMultitaskRun" -> "submit_multi_task_run"

-----------------------------------------------------------------------------
(* The remote service and the hook *)

RunStates == {"PENDING", "RUNNING", "SUCCESS", "FAILED"}
is_terminal(run_state) == run_state \in {"SUCCESS", "FAILED"}
is_successful(run_state) == run_state = "SUCCESS"

RunIds == {"run-1", "run-2"}

TransientBackendError(retry_limit) ==
    Exc("TransientBackendError",
        "API requests to Databricks failed " \o ToString(retry_limit) \o " times. Giving up.")

RequestRejectedError == Exc("RequestRejectedError", "Response: malformed request")

(* One failed attempt of a hook call: retried until the attempt that fails is
   the retry_limit-th *)
Exhausted(h) == h.attempt_num = Val(h.retry_limit)

NoCalls == [submit |-> 0, query |-> 0, requests |-> 0, transient |-> 0]

(* the hook method `what` is called *)
Called(c, what) ==
    IF c.requests = 0 THEN [c EXCEPT ![what] = @ + 1] ELSE c

(* the monitor loop catches the exception of a status query and polls again *)
OnRaiseSwallowed(what, exc) ==
    IF what = "query" THEN [pc |-> "sleep", error |-> NoError]
    ELSE [pc |-> "done", error |-> exc]

(* An exception a hook call raises inside run() or inside the monitor loop:
   neither catches it, so run() ends with it *)
OnRaise(what, exc) == [pc |-> "done", error |-> exc]

(* The states a status query left in the trace of this invocation *)
Observed(tr) == SelectSeq(tr, LAMBDA e : e[1] = "state")
NonTerminalSeen(tr) == Len(SelectSeq(tr, LAMBDA e : e[1] = "state" /\ ~is_terminal(e[2])))

-----------------------------------------------------------------------------
(* _handle_databricks_task_execution: what one pass of the loop does with the
   run state the status query returned *)

(* the loop leaves on RUNNING as if the run had succeeded *)
MonitorStopsOnRunning(self, run_state, submitted_run_id) ==
    IF is_terminal(run_state) \/ run_state = "RUNNING"
    THEN IF is_successful(run_state) \/ run_state = "RUNNING"
         THEN [next |-> "return", error |-> NoError]
         ELSE [next |-> "raise",
               error |-> Exc("PrefectException",
                             self.name \o " failed with terminal state: " \o run_state)]
    ELSE [next |-> "sleep", error |-> NoError]

(* a failed terminal state is logged and polled again *)
MonitorPollsAfterFailure(self, run_state, submitted_run_id) ==
    IF is_terminal(run_state) /\ is_successful(run_state)
    THEN [next |-> "return", error |-> NoError]
    ELSE [next |-> "sleep", error |-> NoError]

(* the loop gives up on the second state that is not terminal *)
MonitorGivesUp(self, run_state, submitted_run_id) ==
    IF is_terminal(run_state)
    THEN IF is_successful(run_state)
         THEN [next |-> "return", error |-> NoError]
         ELSE [next |-> "raise",
               error |-> Exc("PrefectException",
                             self.name \o " failed with terminal state: " \o run_state)]
    ELSE IF run_state = "RUNNING"
         THEN [next |-> "raise",
               error |-> Exc("PrefectException", self.name \o " timed out")]
         ELSE [next |-> "sleep", error |-> NoError]

Monitor(self, run_state, submitted_run_id) ==
    IF is_terminal(run_state)
    THEN IF is_successful(run_state)
         THEN [next |-> "return", error |-> NoError]
         ELSE [next |-> "raise",
               error |-> Exc("PrefectException",
                             self.name \o " failed with terminal state: " \o run_state)]
    ELSE [next |-> "sleep", error |-> NoError]


-----------------------------------------------------------------------------
(* The inputs: task objects as their constructors leave them, and the calls
   of run() a caller makes on them *)

Kinds == {"DatabricksSubmitRun", "DatabricksRunNow", "DatabricksSubmitMultitaskRun"}

ValidConn == Dict(("host" :> Str("abcdef.xyz")) @@ ("token" :> Str("ghijklmn")))

NamedWith(kind, f) == [p \in ParamsOf(kind) |-> IF p \in DOMAIN f THEN f[p] ELSE None]

(* __init__ of the three classes: `self.json = json or {}` for the two that
   take a json, every other argument stored as given *)
Construct(kind, name, conn, json, named, polling, retry_limit, retry_delay) ==
    [kind |-> kind, name |-> name, conn |-> conn,
     json |-> IF kind = "DatabricksSubmitMultitaskRun" THEN None ELSE Or(json, EmptyDict),
     named |-> named,
     polling_period_seconds |-> polling,
     databricks_retry_limit |-> retry_limit,
     databricks_retry_delay |-> retry_delay]

Kwargs(conn, json, named, polling, retry_limit) ==
    [conn |-> conn, json |-> json, named |-> named,
     polling_period_seconds |-> polling,
     databricks_retry_limit |-> retry_limit,
     databricks_retry_delay |-> None]

NoCall(kind) == Kwargs(None, None, NamedWith(kind, <<>>), None, None)

Task1 == <<"dataclass", [cls |-> "JobTaskSettings",
                         f |-> ("task_key" :> Str("Sessionize"))
                               @@ ("timeout_seconds" :> PyInt(86400))]>>

(* prefect.context of a task run: the flow run it belongs to, and how many
   times the task has been run in it *)
Context1 ==
    [flow_run_id |-> Str("flow-run-1"), flow_run_name |-> "brave-fox", task_run_count |-> 1]
Context2 ==
    [flow_run_id |-> Str("flow-run-2"), flow_run_name |-> "calm-owl", task_run_count |-> 1]
Contexts == {Context1, Context2}

RetryLimits == {PyInt(n) : n \in 1..MaxRetryLimit}

(* the named arguments a task needs to get as far as a submission *)
Required(kind) ==
    IF kind = "DatabricksSubmitMultitaskRun"
    THEN NamedWith(kind, [tasks |-> List(<<Task1>>)])
    ELSE NamedWith(kind, <<>>)

(* Lifecycle inputs: every class, polling periods and retry limits vary *)
LifecycleTasks ==
    {Construct(kind, name, ValidConn, None, Required(kind), polling, limit, PyInt(1)) :
        kind \in Kinds, name \in {"extract", "load"},
        polling \in {PyInt(30)}, limit \in RetryLimits}

LifecycleCalls(kind) ==
    {Kwargs(None, None, NamedWith(kind, <<>>), polling, limit) :
        polling \in {None, PyInt(0), PyInt(5)}, limit \in {None, PyInt(1)}}


(* Payload inputs: raw payloads and named parameters that collide with them,
   on the two classes that merge a json with named parameters *)
SubmitJsons ==
    {None,
     Dict([run_name |-> Str("r1")]),
     Dict([timeout_seconds |-> PyInt(5),
           spark_python_task |-> Dict([python_file |-> Str("dbfs:/a.py")])])}

RunNowJsons ==
    {None,
     Dict([notebook_params |-> Dict([a |-> Str("1")])]),
     Dict([job_id |-> PyInt(42),
           notebook_params |-> Dict([a |-> Str("1"), c |-> PyInt(3)]),
           jar_params |-> List(<<Str("old")>>)])}

MergeTasks ==
    {Construct("DatabricksSubmitRun", "extract", ValidConn, json,
               NamedWith("DatabricksSubmitRun", [run_name |-> run_name]),
               PyInt(30), PyInt(1), PyInt(1)) :
        json \in SubmitJsons, run_name \in {None, Str("r2")}}
    \cup
    {Construct("DatabricksRunNow", "load", ValidConn, json,
               NamedWith("DatabricksRunNow", [notebook_params |-> notebook_params]),
               PyInt(30), PyInt(1), PyInt(1)) :
        json \in RunNowJsons, notebook_params \in {None, Dict([b |-> Str("2")])}}

MergeCalls(kind) ==
    IF kind = "DatabricksSubmitRun"
    THEN {Kwargs(None, json,
                 NamedWith(kind, [run_name |-> run_name, timeout_seconds |-> timeout]),
                 None, None) :
            json \in {None, EmptyDict,
                      Dict([run_name |-> Str("r3"), existing_cluster_id |-> Str("c-1")])},
            run_name \in {None, Str("r4")},
            timeout \in {None, PyInt(7)}}
    ELSE {Kwargs(None, json,
                 NamedWith(kind, [notebook_params |-> notebook_params,
                                  jar_params |-> jar_params]),
                 None, None) :
            json \in {None, Dict([notebook_params |-> Dict([a |-> Str("0")]),
                                  python_params |-> List(<<Str("p")>>)])},
            notebook_params \in {None, Dict([a |-> Str("9"), b |-> PyInt(2)])},
            jar_params \in {None, List(<<Str("john doe"), PyInt(35)>>)}}

(* Token inputs: the multitask class, with and without a caller's token, in
   one flow run or another *)
TokenTasks ==
    {Construct("DatabricksSubmitMultitaskRun", "multi", ValidConn, None,
               NamedWith("DatabricksSubmitMultitaskRun",
                         [tasks |-> List(<<Task1>>), idempotency_token |-> token]),
               PyInt(30), PyInt(1), PyInt(1)) :
        token \in {None, Str(""), Str("token-of-init")}}

(* a second task of the documented example *)
Task3 == <<"dataclass", [cls |-> "JobTaskSettings",
                         f |-> ("task_key" :> Str("Orders_Ingest"))
                               @@ ("timeout_seconds" :> PyInt(86400))]>>

TokenCalls(kind) ==
    {Kwargs(None, None,
            NamedWith(kind, [idempotency_token |-> token, tasks |-> tasks]), None, None) :
        token \in {None, Str("token-of-run")},
        tasks \in {None, List(<<Task1, Task3>>)}}

(* Failing inputs: connection descriptors that are missing or no mapping, task
   lists that are missing or empty, and payloads that hold a leaf
   _deep_string_coerce does not take *)
Conns == {None, Str("DATABRICKS_CONN"), EmptyDict, ValidConn}

(* an object that is no str, number, None, list, tuple or dict *)
Opaque == <<"datetime", "2021-01-01">>

Task2 == <<"dataclass", [cls |-> "JobTaskSettings",
                         f |-> ("task_key" :> Str("Orders"))
                               @@ ("max_retries" :> PyInt(3))
                               @@ ("notebook_task" :> Opaque)]>>

ErrorJsons ==
    {None,
     Dict([timeout_seconds |-> PyInt(5),
           libraries |-> List(<<Dict([jar |-> Str("dbfs:/a.jar"),
                                      retries |-> PyInt(2)])>>),
           new_cluster |-> Dict([autoscale |-> <<"bool", "True">>,
                                 driver |-> None])]),
     Dict([new_cluster |-> Dict([num_workers |-> PyInt(2), created |-> Opaque])])}

ErrorTasks ==
    {Construct(kind, "extract", conn, json, NamedWith(kind, <<>>),
               PyInt(30), PyInt(1), PyInt(1)) :
        kind \in {"DatabricksSubmitRun", "DatabricksRunNow"},
        conn \in Conns, json \in ErrorJsons}
    \cup
    {Construct("DatabricksSubmitMultitaskRun", "multi", conn, None,
               NamedWith("DatabricksSubmitMultitaskRun", [tasks |-> tasks]),
               PyInt(30), PyInt(1), PyInt(1)) :
        conn \in Conns,
        tasks \in {None, List(<<>>), List(<<Task1>>), List(<<Task1, Task2>>)}}

ErrorCalls(kind) ==
    {Kwargs(conn, json, NamedWith(kind, <<>>), None, None) :
        conn \in {None, Str("DATABRICKS_CONN"), ValidConn},
        json \in IF kind = "DatabricksSubmitMultitaskRun" THEN {None}
                 ELSE {None, Dict([timeout_seconds |-> PyInt(9),
                                   new_cluster |-> Dict([num_workers |-> PyInt(2)])])}}

CallsOf(caller, kind) ==
    CASE caller = "lifecycle" -> LifecycleCalls(kind)
      [] caller = "merge" -> MergeCalls(kind)
      [] caller = "token" -> TokenCalls(kind)
      [] caller = "errors" -> ErrorCalls(kind)

-----------------------------------------------------------------------------
(* The state after construction *)

(* no function of the module is called on its own *)
(* no invocations run concurrently *)
NoThreads == objects = <<>> /\ threads = <<>>

NoFunctionCall ==
    /\ fn_pc = "none"
    /\ fn_content = None
    /\ fn_desired_dataclass = None
    /\ fn_input = None
    /\ fn_returned = Ok(None)
    /\ fn_reencoded = None
    /\ fn_again = Ok(None)
    /\ fn_coerced = Ok(None)

InitWith(tasks, caller, contexts, transport, maxNonTerminal) ==
    /\ task \in tasks
    /\ ctx \in contexts
    /\ env = [caller |-> caller, contexts |-> contexts, transport |-> transport,
              maxNonTerminal |-> maxNonTerminal]
    /\ call = NoCall(task.kind)
    /\ args = DefaultsFromAttrs(task, call)
    /\ hook = NoHook
    /\ pc = "idle"
    /\ run_id = None
    /\ trace = <<>>
    /\ result = None
    /\ error = NoError
    /\ submissions = <<>>
    /\ invocations = 0
    /\ pre = task
    /\ made = task
    /\ caller_json = Constructed(task)
    /\ calls = NoCalls
    /\ NoFunctionCall
    /\ NoThreads

Init ==
    InitWith(LifecycleTasks, "lifecycle", {Context1},
             {"ok", "transient", "rejected"}, MaxNonTerminal)

-----------------------------------------------------------------------------
(* run(): the call, up to the submission request *)

BeginRun ==
    /\ pc \in {"idle", "done"}
    /\ invocations < MaxInvocations
    /\ \E kwargs \in CallsOf(env.caller, task.kind), c \in env.contexts :
         LET context == [c EXCEPT !.task_run_count = invocations + 1]
             a == DefaultsFromAttrs(task, kwargs)
             p == Prepare(task, a, context)
         IN  /\ call' = kwargs
             /\ ctx' = context
             /\ args' = a
             /\ pre' = task
             /\ caller_json' = CallerJson(caller_json, task, kwargs, a)
             /\ task' = p.task
             /\ hook' = p.hook
             /\ trace' = <<>>
             /\ run_id' = None
             /\ result' = None
             /\ invocations' = invocations + 1
             /\ calls' = NoCalls
             /\ IF p.ok
                THEN /\ pc' = "submit"
                     /\ error' = NoError
                     /\ submissions' = Append(submissions,
                            [endpoint |-> Endpoint(task.kind), json |-> p.v,
                             invocation |-> invocations + 1,
                             context |-> context, named |-> a.named])
                ELSE /\ pc' = "done"
                     /\ error' = p.v
                     /\ UNCHANGED submissions
    /\ UNCHANGED <<env, made>>
    /\ UNCHANGED libvars
    /\ UNCHANGED convars

(* hook.submit_run / run_now / submit_multi_task_run: one attempt succeeds and
   the service returns the run id *)
SubmitOk ==
    /\ pc = "submit"
    /\ "ok" \in env.transport
    /\ \E id \in RunIds :
         /\ run_id' = Str(id)
         /\ trace' = Append(trace, <<"submitted", Str(id)>>)
    /\ hook' = [hook EXCEPT !.attempt_num = 1]
    /\ calls' = [Called(calls, "submit") EXCEPT !.requests = 0, !.transient = 0]
    /\ pc' = "query"
    /\ UNCHANGED libvars
    /\ UNCHANGED convars
    /\ UNCHANGED <<made, caller_json>>
    /\ UNCHANGED <<task, ctx, env, call, args, result, error, submissions,
                   invocations, pre>>

(* one attempt of a hook call fails transiently *)
AttemptTransient(what) ==
    /\ pc = what
    /\ "transient" \in env.transport
    /\ calls' = [Called(calls, what) EXCEPT !.requests = @ + 1, !.transient = @ + 1]
    /\ IF Exhausted(hook)
       THEN LET r == OnRaise(what, TransientBackendError(Val(hook.retry_limit)))
            IN  /\ pc' = r.pc
                /\ error' = r.error
                /\ trace' = Append(trace, <<"raised", what>>)
                /\ UNCHANGED hook
       ELSE /\ hook' = [hook EXCEPT !.attempt_num = @ + 1]
            /\ UNCHANGED <<pc, error, trace>>
    /\ UNCHANGED libvars
    /\ UNCHANGED convars
    /\ UNCHANGED <<made, caller_json>>
    /\ UNCHANGED <<task, ctx, env, call, args, run_id, result, submissions,
                   invocations, pre>>

(* one attempt of a hook call is rejected as malformed *)
AttemptRejected(what) ==
    /\ pc = what
    /\ "rejected" \in env.transport
    /\ calls' = [Called(calls, what) EXCEPT !.requests = @ + 1]
    /\ trace' = Append(trace, <<"raised", what>>)
    /\ LET r == OnRaise(what, RequestRejectedError)
       IN  /\ pc' = r.pc
           /\ error' = r.error
    /\ UNCHANGED libvars
    /\ UNCHANGED convars
    /\ UNCHANGED <<made, caller_json>>
    /\ UNCHANGED <<task, ctx, env, call, args, hook, run_id, result, submissions,
                   invocations, pre>>

SubmitTransient == AttemptTransient("submit")
SubmitRejected == AttemptRejected("submit")

(* _handle_databricks_task_execution: hook.get_run_state returns a state *)
QueryOk ==
    /\ pc = "query"
    /\ "ok" \in env.transport
    /\ \E run_state \in RunStates :
         /\ is_terminal(run_state) \/ NonTerminalSeen(trace) < env.maxNonTerminal
         /\ LET m == Monitor(task, run_state, run_id)
            IN  /\ trace' = Append(trace, <<"state", run_state>>)
                /\ pc' = IF m.next = "sleep" THEN "sleep" ELSE "done"
                /\ error' = m.error
                /\ result' = IF m.next = "return" THEN run_id ELSE result
    /\ hook' = [hook EXCEPT !.attempt_num = 1]
    /\ calls' = [Called(calls, "query") EXCEPT !.requests = 0, !.transient = 0]
    /\ UNCHANGED libvars
    /\ UNCHANGED convars
    /\ UNCHANGED <<made, caller_json>>
    /\ UNCHANGED <<task, ctx, env, call, args, run_id, submissions, invocations, pre>>

(* hook.get_run_state raises: nothing in the loop catches it *)
QueryTransient == AttemptTransient("query")
QueryRejected == AttemptRejected("query")

(* the loop goes round without sleeping *)
SleepSkipped ==
    /\ pc = "sleep"
    /\ pc' = "query"
    /\ UNCHANGED libvars
    /\ UNCHANGED convars
    /\ UNCHANGED <<made, caller_json>>
    /\ UNCHANGED <<task, ctx, env, call, args, hook, run_id, trace, result, error,
                   submissions, invocations, pre, calls>>

(* time.sleep(task.polling_period_seconds) *)
Sleep ==
    /\ pc = "sleep"
    /\ trace' = Append(trace, <<"sleep", task.polling_period_seconds>>)
    /\ pc' = "query"
    /\ UNCHANGED libvars
    /\ UNCHANGED convars
    /\ UNCHANGED <<made, caller_json>>
    /\ UNCHANGED <<task, ctx, env, call, args, hook, run_id, result, error,
                   submissions, invocations, pre, calls>>

Next ==
    \/ BeginRun
    \/ SubmitOk
    \/ SubmitTransient
    \/ SubmitRejected
    \/ QueryOk
    \/ QueryTransient
    \/ QueryRejected
    \/ Sleep

Spec == Init /\ [][Next]_vars

(* the same program on the payload inputs *)
InitMerge ==
    InitWith(MergeTasks, "merge", {Context1}, {"ok", "transient", "rejected"}, 1)

SpecMerge == InitMerge /\ [][Next]_vars

(* the same program on the token inputs *)
InitToken ==
    InitWith(TokenTasks, "token", Contexts, {"ok", "transient", "rejected"}, 1)

SpecToken == InitToken /\ [][Next]_vars

(* the same program on the failing inputs *)
InitErrors ==
    InitWith(ErrorTasks, "errors", {Context1}, {"ok", "transient", "rejected"}, 1)

SpecErrors == InitErrors /\ [][Next]_vars

-----------------------------------------------------------------------------
(* _deep_string_coerce called on its own *)

(* no task runs *)
NoRun ==
    /\ task = Construct("DatabricksSubmitRun", "extract", ValidConn, None,
                        NamedWith("DatabricksSubmitRun", <<>>),
                        PyInt(30), PyInt(1), PyInt(1))
    /\ ctx = Context1
    /\ env = [caller |-> "none", contexts |-> {Context1}, transport |-> {},
              maxNonTerminal |-> 0]
    /\ call = NoCall(task.kind)
    /\ args = DefaultsFromAttrs(task, call)
    /\ hook = NoHook
    /\ pc = "none"
    /\ run_id = None
    /\ trace = <<>>
    /\ result = None
    /\ error = NoError
    /\ submissions = <<>>
    /\ invocations = 0
    /\ pre = task
    /\ made = task
    /\ caller_json = Constructed(task)
    /\ calls = NoCalls

(* the leaves _deep_string_coerce takes, and one it does not *)
PlainLeaves == {Str("a"), PyInt(7), <<"float", "1.5">>, <<"bool", "True">>, None}
Leaves == PlainLeaves \cup {Opaque}

CoerceKeys == <<"weird_field", "name", "size">>

(* the lists of at most n elements of S, and the mappings of S under some of
   the first n keys *)
ListsOf(S, n) == UNION {{List(q) : q \in [1..k -> S]} : k \in 0..n}
DictsOf(S, n) ==
    UNION {{Dict(f) : f \in [K -> S]} : K \in SUBSET {CoerceKeys[i] : i \in 1..n}}

(* a value put one or two containers deeper *)
Nested(x) ==
    {List(<<x>>), Tuple(<<Str("a"), x>>), Dict([tasks |-> x]),
     Dict([tasks |-> List(<<x>>)])}

Contents ==
    LET flat == Leaves \cup ListsOf(Leaves, MaxLen) \cup DictsOf(Leaves, MaxLen)
    IN  flat \cup UNION {Nested(x) : x \in flat}

InitCoerce ==
    /\ NoRun
    /\ NoThreads
    /\ fn_pc = "coerce"
    /\ fn_content \in Contents
    /\ fn_desired_dataclass = None
    /\ fn_input = None
    /\ fn_returned = Ok(None)
    /\ fn_reencoded = None
    /\ fn_again = Ok(None)
    /\ fn_coerced = Ok(None)

(* _deep_string_coerce(content) *)
Coerce ==
    /\ fn_pc = "coerce"
    /\ fn_returned' = DeepStringCoerce(fn_content, "json")
    /\ fn_pc' = "returned"
    /\ UNCHANGED <<fn_content, fn_desired_dataclass, fn_input, fn_reencoded, fn_again, fn_coerced>>
    /\ UNCHANGED runvars
    /\ UNCHANGED convars

SpecCoerce == InitCoerce /\ [][Coerce]_vars

-----------------------------------------------------------------------------
(* _deep_from_dict called on its own, and the round trip through asdict *)

IntT == Class("int")

(* the record alternatives: B has one field more than A, A2 has A's fields *)
A == DataclassOf("A", <<Field("x", IntT, MISSING), Field("y", IntT, MISSING)>>)
B == DataclassOf("B", <<Field("x", IntT, MISSING), Field("y", IntT, MISSING),
                        Field("z", IntT, MISSING)>>)
A2 == DataclassOf("A2", <<Field("x", IntT, MISSING), Field("y", IntT, MISSING)>>)

(* enumerations: Color and Shade name their members by their values and share
   the value RED; Level's names differ from its values; Crossed gives each
   member the other's name as its value *)
Member(name, value) == [name |-> name, value |-> Str(value)]
Color == EnumClass("Color", <<Member("RED", "RED"), Member("BLUE", "BLUE")>>)
Shade == EnumClass("Shade", <<Member("RED", "RED"), Member("DARK", "DARK")>>)
Level == EnumClass("Level", <<Member("can_manage", "CAN_MANAGE"),
                              Member("can_view", "CAN_VIEW")>>)
Grant == EnumClass("Grant", <<Member("manage", "CAN_MANAGE"), Member("run", "CAN_RUN")>>)
Crossed == EnumClass("Crossed", <<Member("RED", "BLUE"), Member("BLUE", "RED")>>)

(* a record whose one field is an enumeration *)
Tagged == DataclassOf("Tagged", <<Field("level", Color, MISSING)>>)

(* a record with a nested record, an optional enumeration and a union *)
Outer ==
    DataclassOf("Outer", <<Field("a", A, MISSING),
                           Field("level", OptionalOf(Color), None),
                           Field("who", UnionOf(<<A, B>>), None)>>)

(* a record whose fields are optional: a union of records and an enumeration *)
Holder ==
    DataclassOf("Holder", <<Field("who", OptionalOf(UnionOf(<<A, B>>)), None),
                            Field("level", OptionalOf(Color), None)>>)

BaseSchemas ==
    {A, B, Tagged, Outer, Holder, Color, Level, Crossed,
     UnionOf(<<A, B>>), UnionOf(<<B, A>>), UnionOf(<<A, A2>>), UnionOf(<<A2, A>>),
     UnionOf(<<Color, Shade>>), UnionOf(<<Shade, Color>>),
     UnionOf(<<Level, Grant>>), UnionOf(<<Grant, Level>>),
     UnionOf(<<Crossed, Color>>), UnionOf(<<A, Color>>)}

Schemas == BaseSchemas \cup {ListOf(t) : t \in BaseSchemas}

(* the mappings with some of the keys x, y, z and w *)
Flat == {Dict([k \in K |-> PyInt(1)]) : K \in SUBSET {"x", "y", "z", "w"}}

Scalars ==
    {Str("RED"), Str("BLUE"), Str("DARK"), Str("GREEN"), Str("CAN_MANAGE"),
     Str("can_manage"), PyInt(1), None}

Inner ==
    {Dict([x |-> PyInt(1), y |-> PyInt(1)]),
     Dict([x |-> PyInt(1), y |-> PyInt(1), z |-> PyInt(1)]),
     Dict([x |-> PyInt(1)])}

(* the mappings for Outer: with and without a, level and who, and with a key
   q that Outer does not have *)
OuterDicts ==
    UNION {{Dict([a |-> d]),
            Dict([a |-> d, level |-> l]),
            Dict([a |-> d, who |-> d]),
            Dict([who |-> d]),
            Dict([a |-> d, q |-> l]),
            Dict([level |-> l])} : d \in Inner, l \in {Str("RED"), Str("GREEN")}}

ListItems ==
    {Dict([x |-> PyInt(1), y |-> PyInt(1)]),
     Dict([x |-> PyInt(1), y |-> PyInt(1), z |-> PyInt(1)]),
     Dict([x |-> PyInt(1), w |-> PyInt(1)]),
     Dict([a |-> Dict([x |-> PyInt(1), y |-> PyInt(1)]), level |-> Str("RED")]),
     Dict([level |-> Str("RED")]),
     Str("RED"), Str("CAN_MANAGE")}

Inputs == Flat \cup Scalars \cup OuterDicts \cup ListsOf(ListItems, MaxLen)

InitDecode ==
    /\ NoRun
    /\ NoThreads
    /\ fn_pc = "decode"
    /\ fn_content = None
    /\ fn_desired_dataclass \in Schemas
    /\ fn_input \in Inputs
    /\ fn_returned = Ok(None)
    /\ fn_reencoded = None
    /\ fn_again = Ok(None)
    /\ fn_coerced = Ok(None)

(* _deep_from_dict(desired_dataclass, input) *)
Decode ==
    /\ fn_pc = "decode"
    /\ fn_returned' = DeepFromDict(fn_desired_dataclass, fn_input)
    /\ fn_pc' = IF fn_returned'.ok THEN "decoded" ELSE "raised"
    /\ UNCHANGED <<fn_content, fn_desired_dataclass, fn_input, fn_reencoded, fn_again, fn_coerced>>
    /\ UNCHANGED runvars
    /\ UNCHANGED convars

(* the decoded value taken back to nested mappings, as run() does with asdict
   for each task and each access control entry *)
Reencode ==
    /\ fn_pc = "decoded"
    /\ fn_reencoded' = AsDictInner(fn_returned.v)
    /\ fn_pc' = "reencoded"
    /\ UNCHANGED <<fn_content, fn_desired_dataclass, fn_input, fn_returned, fn_again, fn_coerced>>
    /\ UNCHANGED runvars
    /\ UNCHANGED convars

(* _deep_from_dict(desired_dataclass, ...) of the re-encoded value *)
DecodeAgain ==
    /\ fn_pc = "reencoded"
    /\ fn_again' = DeepFromDict(fn_desired_dataclass, fn_reencoded)
    /\ fn_pc' = IF fn_again'.ok THEN "again" ELSE "raised again"
    /\ UNCHANGED <<fn_content, fn_desired_dataclass, fn_input, fn_returned, fn_reencoded,
                   fn_coerced>>
    /\ UNCHANGED runvars
    /\ UNCHANGED convars

(* the re-encoded value as the tasks of the payload of
   DatabricksSubmitMultitaskRun.run, handed to _deep_string_coerce *)
CoerceReencoded ==
    /\ fn_pc = "reencoded"
    /\ fn_content' = Dict([tasks |-> fn_reencoded])
    /\ fn_coerced' = DeepStringCoerce(fn_content', "json")
    /\ fn_pc' = IF fn_coerced'.ok THEN "coerced" ELSE "coerce raised"
    /\ UNCHANGED <<fn_desired_dataclass, fn_input, fn_returned, fn_reencoded, fn_again>>
    /\ UNCHANGED runvars
    /\ UNCHANGED convars

NextDecode == Decode \/ Reencode \/ DecodeAgain \/ CoerceReencoded

SpecDecode == InitDecode /\ [][NextDecode]_vars

-----------------------------------------------------------------------------
(* DatabricksSubmitRun.run called by two threads at once, on one task object
   or on two: the statements of run() one by one, each on the attributes of
   the task object as they are when the thread gets to it *)

Threads == {1, 2}

ConcurrentTasks ==
    {Construct("DatabricksSubmitRun", "extract", ValidConn, json,
               NamedWith("DatabricksSubmitRun", <<>>), PyInt(30), PyInt(1), PyInt(1)) :
        json \in {None, Dict([timeout_seconds |-> PyInt(5)])}}

ConcurrentCalls ==
    {Kwargs(None, json, NamedWith("DatabricksSubmitRun", [run_name |-> run_name]),
            polling, None) :
        json \in {None, Dict([existing_cluster_id |-> Str("c-1")])},
        run_name \in {Str("r1"), Str("r2")},
        polling \in {None, PyInt(5)}}

Idle(self, made_) ==
    [self |-> self, made |-> made_, pc |-> "idle",
     call |-> NoCall("DatabricksSubmitRun"),
     args |-> DefaultsFromAttrs(made_, NoCall("DatabricksSubmitRun")),
     run_id |-> None, sent |-> None, slept |-> <<>>, polls |-> 0, error |-> NoError]

InitConcurrent ==
    /\ NoRun
    /\ NoFunctionCall
    /\ \E t \in ConcurrentTasks, other \in {1, 2} :
         /\ objects = [o \in 1..other |-> t]
         /\ threads = [th \in Threads |-> Idle(IF th = 1 THEN 1 ELSE other, t)]

(* the call of run(): defaults_from_attrs reads the attributes, the two
   asserts, then `self.databricks_conn_secret = ...`, `if json: self.json =
   json`, `if polling_period_seconds: ...` and the hook *)
ThreadCall(th) ==
    /\ threads[th].pc = "idle"
    /\ \E kwargs \in ConcurrentCalls :
         LET o == threads[th].self
             self == objects[o]
             a == DefaultsFromAttrs(self, kwargs)
             s1 == [self EXCEPT !.conn = a.conn]
             s2 == IF Truthy(a.json) THEN [s1 EXCEPT !.json = a.json] ELSE s1
             s3 == SetPolling(s2, a.polling_period_seconds)
         IN  IF ConnSecretError(a.conn) # NoError
             THEN /\ threads' = [threads EXCEPT ![th].pc = "done", ![th].call = kwargs,
                                                ![th].args = a,
                                                ![th].error = ConnSecretError(a.conn)]
                  /\ UNCHANGED objects
             ELSE /\ threads' = [threads EXCEPT ![th].pc = "merge", ![th].call = kwargs,
                                                ![th].args = a]
                  /\ objects' = [objects EXCEPT ![o] = s3]
    /\ UNCHANGED runvars
    /\ UNCHANGED libvars

(* `if <param> is not None: self.json[<param>] = <param>` for each named
   parameter, and the default run_name *)
ThreadMerge(th) ==
    /\ threads[th].pc = "merge"
    /\ LET o == threads[th].self
           a == threads[th].args
       IN  objects' = [objects EXCEPT ![o].json =
                          WithRunName(MergeNamed(@, a.named, SubmitRunParams),
                                      a.named["run_name"])]
    /\ threads' = [threads EXCEPT ![th].pc = "coerce"]
    /\ UNCHANGED runvars
    /\ UNCHANGED libvars

(* `self.json = _deep_string_coerce(self.json)` *)
ThreadCoerce(th) ==
    /\ threads[th].pc = "coerce"
    /\ LET o == threads[th].self
           c == DeepStringCoerce(objects[o].json, "json")
       IN  IF c.ok
           THEN /\ objects' = [objects EXCEPT ![o].json = c.v]
                /\ threads' = [threads EXCEPT ![th].pc = "submit"]
           ELSE /\ threads' = [threads EXCEPT ![th].pc = "done", ![th].error = c.v]
                /\ UNCHANGED objects
    /\ UNCHANGED runvars
    /\ UNCHANGED libvars

(* `submitted_run_id = hook.submit_run(self.json)` *)
ThreadSubmit(th) ==
    /\ threads[th].pc = "submit"
    /\ threads' = [threads EXCEPT ![th].pc = "query",
                                  ![th].sent = objects[threads[th].self].json,
                                  ![th].run_id = Str("run-" \o ToString(th))]
    /\ UNCHANGED objects
    /\ UNCHANGED runvars
    /\ UNCHANGED libvars

(* one pass of the loop of _handle_databricks_task_execution *)
ThreadQuery(th) ==
    /\ threads[th].pc = "query"
    /\ \E run_state \in RunStates :
         /\ is_terminal(run_state) \/ threads[th].polls < MaxNonTerminal
         /\ LET m == Monitor(objects[threads[th].self], run_state, threads[th].run_id)
            IN  threads' = [threads EXCEPT
                               ![th].pc = IF m.next = "sleep" THEN "sleep" ELSE "done",
                               ![th].error = m.error,
                               ![th].polls = IF m.next = "sleep" THEN @ + 1 ELSE @]
    /\ UNCHANGED objects
    /\ UNCHANGED runvars
    /\ UNCHANGED libvars

(* `time.sleep(task.polling_period_seconds)` *)
ThreadSleep(th) ==
    /\ threads[th].pc = "sleep"
    /\ threads' = [threads EXCEPT
                       ![th].pc = "query",
                       ![th].slept =
                           Append(@, objects[threads[th].self].polling_period_seconds)]
    /\ UNCHANGED objects
    /\ UNCHANGED runvars
    /\ UNCHANGED libvars

ThreadStep(th) ==
    \/ ThreadCall(th)
    \/ ThreadMerge(th)
    \/ ThreadCoerce(th)
    \/ ThreadSubmit(th)
    \/ ThreadQuery(th)
    \/ ThreadSleep(th)

NextConcurrent == \E th \in Threads : ThreadStep(th)

SpecConcurrent == InitConcurrent /\ [][NextConcurrent]_vars

(* run() runs on one thread, and each of its blocking calls comes back: a
   request is answered or fails, a sleep ends *)
SpecLive ==
    /\ Init
    /\ [][Next]_vars
    /\ WF_vars(SubmitOk \/ SubmitTransient \/ SubmitRejected)
    /\ WF_vars(QueryOk \/ QueryTransient \/ QueryRejected)
    /\ WF_vars(Sleep)


-----------------------------------------------------------------------------
(* What the claims speak of *)

Last(q) == q[Len(q)]

Running == pc \in {"submit", "query", "sleep"}
Finished == pc = "done"

(* the invocation ended on a run state the monitor observed *)
EndedOnState == Finished /\ trace # <<>> /\ Last(trace)[1] = "state"
(* the invocation ended on an exception of the hook call `what` *)
EndedOnRaise(what) == Finished /\ trace # <<>> /\ Last(trace) = <<"raised", what>>

ObservedStates == [i \in DOMAIN Observed(trace) |-> Observed(trace)[i][2]]

(* the poll interval and the retry limit the caller configured: the argument
   of run() when it gives one, the task's attribute otherwise *)
ConfiguredPolling ==
    IF Truthy(call.polling_period_seconds)
    THEN call.polling_period_seconds ELSE pre.polling_period_seconds
ConfiguredRetryLimit ==
    IF call.databricks_retry_limit # None
    THEN call.databricks_retry_limit ELSE pre.databricks_retry_limit

-----------------------------------------------------------------------------
(* C1: when the remote reports k non-terminal states and then a terminal one,
   the monitor has issued exactly k+1 status queries when run() ends; on a
   successful terminal state run() ends without error and returns the run id
   the submission returned; on a failed terminal state run() raises, after
   exactly k+1 queries. *)
C1_ScriptedSequence ==
    /\ EndedOnState =>
         LET obs == ObservedStates
             n == Len(obs)
         IN  /\ is_terminal(obs[n])
             /\ \A i \in 1..(n - 1) : ~is_terminal(obs[i])
             /\ calls.query = NonTerminalSeen(trace) + 1
             /\ trace[1][1] = "submitted"
             /\ IF is_successful(obs[n])
                THEN error = NoError /\ result = trace[1][2] /\ result # None
                ELSE error.type = "PrefectException" /\ result = None
    /\ (Finished /\ result # None) => (EndedOnState /\ is_successful(Last(ObservedStates)))

C1_Witness ==
    /\ Finished
    /\ ObservedStates = <<"PENDING", "RUNNING", "SUCCESS">>
    /\ calls.query = 3
    /\ error = NoError
    /\ result = Str("run-2")

(* C2: a terminal state that is not successful ends run() with an error that
   carries the task's name and the state; run() calls the submission endpoint
   at most once, and issues no status query after a terminal observation. *)
C2_FailureNotRetried ==
    /\ (EndedOnState /\ ~is_successful(Last(ObservedStates))) =>
          /\ error = Exc("PrefectException",
                         pre.name \o " failed with terminal state: "
                             \o Last(ObservedStates))
          /\ result = None
    /\ calls.submit <= 1
    /\ Len(submissions) <= invocations
    /\ \A i \in DOMAIN ObservedStates :
          is_terminal(ObservedStates[i]) => (i = Len(ObservedStates) /\ Finished)
    /\ \A i \in DOMAIN trace :
          (trace[i][1] = "state" /\ is_terminal(trace[i][2])) => i = Len(trace)

C2_Witness ==
    /\ Finished
    /\ pre.name = "load"
    /\ ObservedStates = <<"PENDING", "FAILED">>
    /\ error = Exc("PrefectException", "load failed with terminal state: FAILED")
    /\ calls.submit = 1
    /\ calls.query = 2

(* C3: in the monitor loop status queries and sleeps strictly alternate: each
   non-terminal observation is followed by exactly one sleep of the
   configured poll interval before the next status query, no two status
   queries come without a sleep between them, and no sleep follows a terminal
   observation. *)
IsQuery(e) == e[1] = "state" \/ e = <<"raised", "query">>

C3_QueriesAndSleepsAlternate ==
    /\ \A i \in DOMAIN trace :
          /\ trace[i][1] = "sleep" =>
                /\ i > 1
                /\ trace[i - 1][1] = "state"
                /\ ~is_terminal(trace[i - 1][2])
                /\ trace[i][2] = ConfiguredPolling
          /\ IsQuery(trace[i]) =>
                /\ i > 1
                /\ trace[i - 1][1] \in {"submitted", "sleep"}
          /\ (trace[i][1] = "state" /\ ~is_terminal(trace[i][2])) =>
                IF i = Len(trace) THEN pc = "sleep" ELSE trace[i + 1][1] = "sleep"
    /\ pc = "sleep" =>
          (trace # <<>> /\ Last(trace)[1] = "state" /\ ~is_terminal(Last(trace)[2]))
    /\ pc = "query" => (trace # <<>> /\ Last(trace)[1] \in {"submitted", "sleep"})

C3_Witness ==
    /\ Finished
    /\ call.polling_period_seconds = PyInt(5)
    /\ trace = <<<<"submitted", Str("run-1")>>, <<"state", "PENDING">>,
                 <<"sleep", PyInt(5)>>, <<"state", "RUNNING">>,
                 <<"sleep", PyInt(5)>>, <<"state", "SUCCESS">>>>

(* C4: the monitor has no bound of its own on the number of polls: it ends
   only on a terminal observation or on a status query that raised, however
   many non-terminal states it has seen; and once the run is submitted, run()
   does end, with a result or an error, when the remote comes to report a
   terminal state. *)
C4_EndsOnlyOnTerminal ==
    (Finished /\ calls.query > 0) =>
        \/ EndedOnState /\ is_terminal(Last(ObservedStates))
        \/ EndedOnRaise("query")

C4_PollsUntilTerminal ==
    /\ []C4_EndsOnlyOnTerminal
    /\ (pc \in {"query", "sleep"}) ~> Finished

C4_Witness ==
    /\ pc = "query"
    /\ NonTerminalSeen(trace) = MaxNonTerminal
    /\ calls.query = MaxNonTerminal

(* C5: on a transport that fails transiently every time, a hook call makes
   exactly as many requests as the configured databricks_retry_limit and then
   raises the transient-failure error; a request rejected as malformed is not
   retried. *)
C5_RetryLimit ==
    /\ Running => /\ hook.retry_limit = ConfiguredRetryLimit
                  /\ calls.requests < Val(ConfiguredRetryLimit)
    /\ (Finished /\ error.type = "TransientBackendError") =>
          /\ calls.requests = Val(ConfiguredRetryLimit)
          /\ calls.transient = calls.requests
          /\ error = TransientBackendError(Val(ConfiguredRetryLimit))
    /\ (Finished /\ error.type = "RequestRejectedError") =>
          /\ calls.requests = calls.transient + 1
          /\ calls.requests <= Val(ConfiguredRetryLimit)

C5_Witness ==
    /\ EndedOnRaise("submit")
    /\ task.kind = "DatabricksSubmitMultitaskRun"
    /\ pre.databricks_retry_limit = PyInt(2)
    /\ call.databricks_retry_limit = None
    /\ calls.requests = 2
    /\ error.type = "TransientBackendError"

(* C6: a status query whose retries are exhausted ends run() with that error:
   the monitor makes no further query and no sleep after it, and run()
   returns nothing. *)
C6_StatusFailureSurfaces ==
    /\ \A i \in DOMAIN trace :
          trace[i][1] = "raised" => (i = Len(trace) /\ Finished)
    /\ EndedOnRaise("query") =>
          /\ error.type \in {"TransientBackendError", "RequestRejectedError"}
          /\ result = None
          /\ error.type = "TransientBackendError" =>
                /\ calls.requests = Val(ConfiguredRetryLimit)
                /\ calls.transient = calls.requests

C6_Witness ==
    /\ EndedOnRaise("query")
    /\ ObservedStates = <<"RUNNING">>
    /\ error.type = "TransientBackendError"
    /\ calls.requests = 2
    /\ calls.query = 2


-----------------------------------------------------------------------------
(* The payload of this invocation and the inputs it was merged from *)

Submitted == submissions # <<>> /\ Last(submissions).invocation = invocations
Sent == Last(submissions).json

Coerced(v) == DeepStringCoerce(v, "json").v

(* The inputs of the merge are the parameters of run() as its body has them:
   the argument of the call, or, for an argument the call leaves out, the
   attribute of the task at the time of the call (defaults_from_attrs). *)

(* a named parameter of this invocation *)
Override(p) == IF call.named[p] # None THEN call.named[p] ELSE pre.named[p]

(* the raw payload of this invocation: DatabricksSubmitRun takes the json
   argument when it is not empty and the task's json otherwise,
   DatabricksRunNow the json argument when one is passed and the task's json
   otherwise *)
RawSubmitRun == IF Truthy(call.json) THEN call.json ELSE pre.json
RawRunNow == IF call.json # None THEN call.json ELSE pre.json

(* C7: on DatabricksSubmitRun the submitted payload holds, for every named
   parameter that was supplied, the (string-coerced) value of the parameter,
   also when the raw payload has the key, and for every other top-level key of
   the raw payload the (string-coerced) value the raw payload has. *)
C7_NamedOverridesWin ==
    (task.kind = "DatabricksSubmitRun" /\ Submitted) =>
        /\ \A p \in Range(SubmitRunParams) :
              Override(p) # None =>
                  (p \in Keys(Sent) /\ Get(Sent, p) = Coerced(Override(p)))
        /\ \A k \in Keys(RawSubmitRun) :
              (k \notin Range(SubmitRunParams) \/ Override(k) = None) =>
                  (k \in Keys(Sent) /\ Get(Sent, k) = Coerced(Get(RawSubmitRun, k)))

C7_Witness ==
    /\ task.kind = "DatabricksSubmitRun"
    /\ Submitted
    /\ invocations = 1
    /\ RawSubmitRun = Dict([run_name |-> Str("r3"), existing_cluster_id |-> Str("c-1")])
    /\ Override("run_name") = Str("r2")
    /\ Override("timeout_seconds") = PyInt(7)
    /\ Sent = Dict([run_name |-> Str("r2"), existing_cluster_id |-> Str("c-1"),
                    timeout_seconds |-> Str("7")])

(* C8: on DatabricksSubmitRun the submitted payload always has a run_name: the
   one the named parameter supplies, else the one the raw payload supplies,
   and "Run Submitted by Prefect" exactly when neither supplies one. *)
C8_DefaultRunName ==
    (task.kind = "DatabricksSubmitRun" /\ Submitted) =>
        /\ "run_name" \in Keys(Sent)
        /\ Get(Sent, "run_name") =
              IF Override("run_name") # None THEN Coerced(Override("run_name"))
              ELSE IF "run_name" \in Keys(RawSubmitRun)
                   THEN Coerced(Get(RawSubmitRun, "run_name"))
                   ELSE Str("Run Submitted by Prefect")

C8_Witness ==
    /\ task.kind = "DatabricksSubmitRun"
    /\ Submitted
    /\ Override("run_name") = None
    /\ "run_name" \notin Keys(RawSubmitRun)
    /\ Keys(RawSubmitRun) # {}
    /\ Get(Sent, "run_name") = Str("Run Submitted by Prefect")

(* C9: on DatabricksRunNow, when the raw payload and the named parameter both
   supply notebook_params, the submitted notebook_params has the keys of both,
   with the named parameter's value for each of its keys and the raw
   payload's value for the others; each other named parameter that is
   supplied replaces the raw payload's field as a whole. *)
C9_NotebookParamsMerged ==
    (task.kind = "DatabricksRunNow" /\ Submitted) =>
        /\ (Override("notebook_params") # None /\ "notebook_params" \in Keys(RawRunNow)) =>
              LET raw == Get(RawRunNow, "notebook_params")
                  named == Override("notebook_params")
                  sent == Get(Sent, "notebook_params")
              IN  /\ Keys(sent) = Keys(raw) \cup Keys(named)
                  /\ \A k \in Keys(named) : Get(sent, k) = Coerced(Get(named, k))
                  /\ \A k \in Keys(raw) \ Keys(named) : Get(sent, k) = Coerced(Get(raw, k))
        /\ \A p \in Range(RunNowParams) \ {"notebook_params"} :
              Override(p) # None =>
                  (p \in Keys(Sent) /\ Get(Sent, p) = Coerced(Override(p)))

C9_Witness ==
    /\ task.kind = "DatabricksRunNow"
    /\ Submitted
    /\ invocations = 1
    /\ RawRunNow = Dict([notebook_params |-> Dict([a |-> Str("1")])])
    /\ Override("notebook_params") = Dict([b |-> Str("2")])
    /\ Get(Sent, "notebook_params") = Dict([a |-> Str("1"), b |-> Str("2")])

(* C10: on DatabricksSubmitMultitaskRun two submissions made in the same flow
   run without a token of the caller's, the second a retry of the first,
   carry the same idempotency token; a token the caller supplies is submitted
   as it is. *)
CallerToken(i) == submissions[i].named["idempotency_token"]
SentToken(i) == Get(submissions[i].json, "idempotency_token")

C10_StableIdempotencyToken ==
    \A i, j \in DOMAIN submissions :
        /\ (/\ ~Truthy(CallerToken(i))
            /\ ~Truthy(CallerToken(j))
            /\ submissions[i].context.flow_run_id = submissions[j].context.flow_run_id)
           => SentToken(i) = SentToken(j)
        /\ Truthy(CallerToken(i)) => SentToken(i) = CallerToken(i)

C10_Witness ==
    /\ Len(submissions) = 2
    /\ ~Truthy(CallerToken(1)) /\ ~Truthy(CallerToken(2))
    /\ submissions[1].context.flow_run_id = submissions[2].context.flow_run_id
    /\ submissions[1].context.task_run_count # submissions[2].context.task_run_count
    /\ SentToken(2) = Str("flow-run-1")


-----------------------------------------------------------------------------
(* The inputs of this invocation as the body of run() has them, and the
   payload it builds from them *)

Invoked == invocations > 0

(* the connection descriptor is missing or is no mapping *)
BadConn == args.conn = None \/ Tag(args.conn) # "dict"

(* the list of tasks of the multitask class is missing or empty *)
NoTasks ==
    /\ task.kind = "DatabricksSubmitMultitaskRun"
    /\ \/ args.named["tasks"] = None
       \/ Len(Val(args.named["tasks"])) = 0

(* run() made no call of the hook: no submission, no status query, no request *)
NoNetworkCall ==
    /\ calls = NoCalls
    /\ trace = <<>>
    /\ run_id = None
    /\ ~Submitted

(* C11: when the connection descriptor is missing or is not a mapping, on each
   of the three classes, or the multitask list of tasks is missing or empty,
   run() ends at once with an error, with no hook made, no submission and no
   status query. *)
C11_ConfigErrorBeforeNetwork ==
    (Invoked /\ (BadConn \/ NoTasks)) =>
        /\ Finished
        /\ error.type \in {"AssertionError", "ValueError"}
        /\ result = None
        /\ hook = NoHook
        /\ NoNetworkCall

C11_Witness ==
    /\ Invoked
    /\ task.kind = "DatabricksSubmitMultitaskRun"
    /\ args.conn = ValidConn
    /\ args.named["tasks"] = List(<<>>)
    /\ error = Exc("ValueError", "Please supply at least one Databricks task to be run.")


(* run() got past the checks of its arguments *)
ConfigOk ==
    IF task.kind = "DatabricksSubmitMultitaskRun"
    THEN MultitaskInputError(args.conn, args.named["tasks"]) = NoError
    ELSE ConnSecretError(args.conn) = NoError

(* the payload this invocation hands to _deep_string_coerce *)
Payload == RunJson(pre, args, ctx)

(* a wire tree: every leaf is a string or None *)
RECURSIVE IsWireTree(_)
IsWireTree(v) ==
    CASE Tag(v) \in {"str", "none"} -> TRUE
      [] Tag(v) = "list" -> \A i \in DOMAIN Val(v) : IsWireTree(Val(v)[i])
      [] Tag(v) = "dict" -> \A k \in Keys(v) : IsWireTree(Get(v, k))
      [] OTHER -> FALSE

(* C12: every payload handed to submit_run, run_now or submit_multi_task_run
   is what _deep_string_coerce returned, a tree whose leaves are all strings
   or None; and when _deep_string_coerce raises, run() ends with that error
   and has made no submission and no status query. *)
C12_OnlyWireTreesSubmitted ==
    /\ \A i \in DOMAIN submissions : IsWireTree(submissions[i].json)
    /\ (Invoked /\ ConfigOk /\ Payload.ok) =>
          LET c == DeepStringCoerce(Payload.v, "json")
          IN  IF c.ok
              THEN Submitted /\ Sent = c.v
              ELSE /\ Finished
                   /\ error = c.v
                   /\ result = None
                   /\ NoNetworkCall

C12_Witness ==
    /\ invocations = 2
    /\ Len(submissions) = 1
    /\ Last(submissions).invocation = 2
    /\ Last(submissions).endpoint = "run_now"
    /\ Payload.v = Dict([timeout_seconds |-> PyInt(9),
                         new_cluster |-> Dict([num_workers |-> PyInt(2)])])
    /\ Sent = Dict([timeout_seconds |-> Str("9"),
                    new_cluster |-> Dict([num_workers |-> Str("2")])])


-----------------------------------------------------------------------------
(* What the claims about _deep_string_coerce speak of *)

(* content is built of lists, tuples and mappings over strings, numbers,
   booleans and None *)
RECURSIVE IsPlain(_)
IsPlain(v) ==
    CASE Tag(v) \in {"str", "int", "float", "bool", "none"} -> TRUE
      [] Tag(v) \in {"list", "tuple"} -> \A i \in DOMAIN Val(v) : IsPlain(Val(v)[i])
      [] Tag(v) = "dict" -> \A k \in Keys(v) : IsPlain(Get(v, k))
      [] OTHER -> FALSE

(* w is v with each number and boolean replaced by its string form *)
RECURSIVE SameShape(_, _)
SameShape(v, w) ==
    CASE Tag(v) \in {"str", "none"} -> w = v
      [] Tag(v) = "int" -> w = Str(ToString(Val(v)))
      [] Tag(v) \in {"float", "bool"} -> w = Str(Val(v))
      [] Tag(v) \in {"list", "tuple"} ->
            /\ Tag(w) = "list"
            /\ Len(Val(w)) = Len(Val(v))
            /\ \A i \in DOMAIN Val(v) : SameShape(Val(v)[i], Val(w)[i])
      [] Tag(v) = "dict" ->
            /\ Tag(w) = "dict"
            /\ Keys(w) = Keys(v)
            /\ \A k \in Keys(v) : SameShape(Get(v, k), Get(w, k))
      [] OTHER -> FALSE

(* C13: on a value built of sequences and mappings over strings, numbers,
   booleans and None, _deep_string_coerce returns, and what it returns has the
   same structure with only strings and None as leaves: every sequence keeps
   its length and order, every mapping its keys, strings and None stay, each
   number and boolean is its string form. *)
C13_CoercionKeepsStructure ==
    (fn_pc = "returned" /\ IsPlain(fn_content)) =>
        /\ fn_returned.ok
        /\ SameShape(fn_content, fn_returned.v)
        /\ IsWireTree(fn_returned.v)

C13_Witness ==
    /\ fn_pc = "returned"
    /\ fn_content = Dict([tasks |-> List(<<Dict([weird_field |-> PyInt(7),
                                                  name |-> <<"bool", "True">>])>>)])
    /\ fn_returned = Ok(Dict([tasks |-> List(<<Dict([weird_field |-> Str("7"),
                                                     name |-> Str("True")])>>)]))


(* the leaves of content that _deep_string_coerce does not take, each with
   its path from the root: the keys and indexes on the way, as in
   json[tasks][0][weird_field] *)
RECURSIVE UnsupportedLeaves(_, _)
UnsupportedLeaves(v, path) ==
    CASE Tag(v) \in {"str", "int", "float", "bool", "none"} -> {}
      [] Tag(v) \in {"list", "tuple"} ->
            UNION {UnsupportedLeaves(Val(v)[i], path \o "[" \o ToString(i - 1) \o "]") :
                      i \in DOMAIN Val(v)}
      [] Tag(v) = "dict" ->
            UNION {UnsupportedLeaves(Get(v, k), path \o "[" \o k \o "]") : k \in Keys(v)}
      [] OTHER -> {[path |-> path, type |-> Tag(v)]}

(* C14: on a value that holds an unsupported leaf, _deep_string_coerce raises
   an error that names the path of such a leaf from the root, built of the
   mapping keys and sequence indexes on the way to it. *)
C14_ErrorNamesLeafPath ==
    (fn_pc = "returned" /\ UnsupportedLeaves(fn_content, "json") # {}) =>
        /\ ~fn_returned.ok
        /\ \E leaf \in UnsupportedLeaves(fn_content, "json") :
              fn_returned.v =
                  Exc("ValueError",
                      "Type " \o leaf.type \o " used for parameter " \o leaf.path
                          \o " is not a number or a string")

-----------------------------------------------------------------------------
(* _deep_from_dict has returned or raised for fn_desired_dataclass and
   fn_input *)
Decoded ==
    fn_pc \in {"decoded", "raised", "reencoded", "again", "raised again", "coerced",
              "coerce raised"}

(* the dataclass members of a Union whose field names are exactly the keys of
   a mapping *)
ExactMembers(union, input) ==
    {i \in DOMAIN get_args(union) :
        /\ is_dataclass(get_args(union)[i])
        /\ FieldNames(get_args(union)[i]) = Keys(input)}

(* the value is an instance of the dataclass *)
InstanceOf(r, cls) == r.ok /\ Tag(r.v) = "dataclass" /\ Val(r.v).cls = Val(cls).name

(* C15: decoding a mapping against a Union, a dataclass member is taken if
   and only if the keys of the mapping are exactly its field names: the result
   is an instance of a member only when that member's field names equal the
   keys, a mapping whose keys equal some member's field names always decodes
   to such a member, and with A (x, y) and B (x, y, z) in either order the
   keys x, y, z give a B and the keys x, y give an A *)
C15_ExactKeySetMatch ==
    (Decoded /\ IsUnion(fn_desired_dataclass) /\ Tag(fn_input) = "dict") =>
        LET members == get_args(fn_desired_dataclass)
            exact == ExactMembers(fn_desired_dataclass, fn_input)
        IN  /\ \A i \in DOMAIN members :
                  (is_dataclass(members[i]) /\ InstanceOf(fn_returned, members[i]))
                      => i \in exact
            /\ exact # {} => \E i \in exact : InstanceOf(fn_returned, members[i])
            /\ (fn_desired_dataclass \in {UnionOf(<<A, B>>), UnionOf(<<B, A>>)}
                  /\ Keys(fn_input) = {"x", "y", "z"}) => InstanceOf(fn_returned, B)
            /\ (fn_desired_dataclass \in {UnionOf(<<A, B>>), UnionOf(<<B, A>>)}
                  /\ Keys(fn_input) = {"x", "y"}) => InstanceOf(fn_returned, A)

(* the mapping with x, y and z has been decoded against Union[A, B], where A
   is declared first and its fields are among the keys *)
C15_Witness ==
    /\ Decoded
    /\ fn_desired_dataclass = UnionOf(<<A, B>>)
    /\ Tag(fn_input) = "dict" /\ Keys(fn_input) = {"x", "y", "z"}
    /\ InstanceOf(fn_returned, B)

(* the member of an Enum class that has the value, when there is one *)
EnumByValue(cls, input) ==
    LET ms == Val(cls).members
        hit == {i \in DOMAIN ms : ms[i].value = input}
    IN  IF hit # {}
        THEN Ok(EnumMember(cls, ms[CHOOSE i \in hit : \A j \in hit : i <= j]))
        ELSE Err("KeyError", Repr(input))

HasValue(cls, input) == EnumByValue(cls, input).ok

(* the members of a Union that match an input: a dataclass whose field names
   are the keys of the mapping, an Enum class with a member of that value *)
Matching(union, input) ==
    {i \in DOMAIN get_args(union) :
        \/ Tag(input) = "dict" /\ i \in ExactMembers(union, input)
        \/ IsEnumClass(get_args(union)[i]) /\ HasValue(get_args(union)[i], input)}

FirstMatching(union, input) ==
    get_args(union)[CHOOSE i \in Matching(union, input) :
                        \A j \in Matching(union, input) : i <= j]

SameResult(r, e) == r.ok = e.ok /\ r.v = e.v

(* C16: when more than one member of a Union matches the input, the decode
   gives what the first matching member in declared order gives: the decode
   against that dataclass, or that Enum's member with the input as value *)
C16_FirstMatchingAlternativeWins ==
    (Decoded /\ IsUnion(fn_desired_dataclass) /\ Tag(fn_input) \notin {"list", "tuple"}
        /\ Cardinality(Matching(fn_desired_dataclass, fn_input)) > 1) =>
        LET first == FirstMatching(fn_desired_dataclass, fn_input)
        IN  IF is_dataclass(first)
            THEN SameResult(fn_returned, DeepFromDict(first, fn_input))
            ELSE SameResult(fn_returned, EnumByValue(first, fn_input))

(* C17: when no member of a Union matches the input, the decode fails: it
   returns no value, and never the input as it was given *)
C17_NoMatchingAlternativeFails ==
    (Decoded /\ IsUnion(fn_desired_dataclass) /\ Tag(fn_input) \notin {"list", "tuple"}
        /\ Matching(fn_desired_dataclass, fn_input) = {}) => ~fn_returned.ok

(* the path of a key or an index under a path, the root being empty *)
Under(path, k) == IF path = "" THEN k ELSE path \o "." \o k

(* the paths of the keys of a mapping that are no field of the dataclass the
   mapping is decoded against, at any depth under dataclasses and lists *)
RECURSIVE UnknownKeyPaths(_, _, _)
UnknownKeyPaths(t, v, path) ==
    IF Tag(v) \in {"list", "tuple"} /\ Tag(t) = "List"
    THEN UNION {UnknownKeyPaths(get_args(t)[1], Val(v)[i], Under(path, ToString(i - 1))) :
                    i \in DOMAIN Val(v)}
    ELSE IF Tag(v) = "dict" /\ is_dataclass(t)
    THEN {Under(path, k) : k \in Keys(v) \ FieldNames(t)}
         \cup UNION {UnknownKeyPaths(
                         IF _is_optional(FieldOf(t, k).type)
                         THEN FirstNotNone(FieldOf(t, k).type) ELSE FieldOf(t, k).type,
                         Get(v, k), Under(path, k)) :
                             k \in Keys(v) \cap FieldNames(t)}
    ELSE {}

(* C18: when a mapping decoded against a dataclass has a key that is no field
   of it, at any depth, the decode fails and the error names the path of such
   a key *)
C18_UnknownKeyErrorNamesPath ==
    (Decoded /\ UnknownKeyPaths(fn_desired_dataclass, fn_input, "") # {}) =>
        /\ ~fn_returned.ok
        /\ fn_returned.v.message \in UnknownKeyPaths(fn_desired_dataclass, fn_input, "")

(* C19: against an Enum class the decode succeeds exactly when the input is
   the value of one of its members, and it then gives that member, whether or
   not the members are named by their values *)
C19_EnumDecodedByValue ==
    (Decoded /\ IsEnumClass(fn_desired_dataclass)) =>
        /\ fn_returned.ok <=> HasValue(fn_desired_dataclass, fn_input)
        /\ fn_returned.ok => fn_returned.v = EnumByValue(fn_desired_dataclass, fn_input).v

(* C20: whenever a decode succeeds, the decoded value taken back to nested
   mappings decodes again, under the same type, to a value equal to the first
   one *)
C20_RoundTrip ==
    fn_pc \in {"again", "raised again"} => (fn_again.ok /\ fn_again.v = fn_returned.v)

(* the Enum members of a Union that have a member with the input as value *)
EnumMatching(union, input) ==
    {i \in DOMAIN get_args(union) :
        IsEnumClass(get_args(union)[i]) /\ HasValue(get_args(union)[i], input)}

(* the value is a member of the Enum class *)
MemberOf(r, cls) == r.ok /\ Tag(r.v) = "enum" /\ Val(r.v).cls = Val(cls).name

(* C22: decoding against a Union, an Enum member of the Union is taken if and
   only if the input is the value of one of its members, whatever else the
   Union holds and in whatever order: an input that is such a value decodes to
   the member of the first such Enum, and a member of an Enum comes back only
   for an input that is one of that Enum's values *)
C22_EnumAlternativeByValue ==
    (Decoded /\ IsUnion(fn_desired_dataclass) /\ Tag(fn_input) \notin {"list", "tuple"}) =>
        LET members == get_args(fn_desired_dataclass)
            hit == EnumMatching(fn_desired_dataclass, fn_input)
        IN  /\ \A i \in DOMAIN members :
                  (IsEnumClass(members[i]) /\ MemberOf(fn_returned, members[i]))
                      => i \in hit
            /\ hit # {} =>
                  SameResult(fn_returned,
                      EnumByValue(members[CHOOSE i \in hit : \A j \in hit : i <= j],
                                  fn_input))

(* the type an Optional stands for: what is left of the Union without None *)
InnerType(t) ==
    LET rest == SelectSeq(get_args(t), LAMBDA m : m # NoneType)
    IN  IF Len(rest) = 1 THEN rest[1] ELSE UnionOf(rest)

DeclaredType(t) == IF _is_optional(t) THEN InnerType(t) ELSE t

(* the values of a mapping decoded each under the declared type of its field,
   an Optional taken as its whole inner type *)
FieldResults(cls, input) ==
    [k \in Keys(input) |-> DeepFromDict(DeclaredType(FieldOf(cls, k).type), Get(input, k))]

(* C23: decoding a mapping against a dataclass, the value of a field whose
   type is Optional is decoded under the whole inner type, a Union of several
   members included, so that the result holds for each key the decode of its
   value under that type; an Optional field the mapping leaves out is None *)
C23_OptionalUnwrappedWhole ==
    (Decoded /\ is_dataclass(fn_desired_dataclass) /\ Tag(fn_input) = "dict"
        /\ Keys(fn_input) \subseteq FieldNames(fn_desired_dataclass)
        /\ \A k \in Keys(fn_input) : FieldResults(fn_desired_dataclass, fn_input)[k].ok) =>
        LET rs == FieldResults(fn_desired_dataclass, fn_input)
        IN  SameResult(fn_returned,
                DataclassInit(fn_desired_dataclass, [k \in Keys(fn_input) |-> rs[k].v]))

(* what _deep_from_dict returned is a typed configuration: a list of
   dataclass instances, as tasks and access_control_list are *)
TypedConfiguration(r) ==
    /\ r.ok
    /\ Tag(r.v) = "list"
    /\ Len(Val(r.v)) > 0
    /\ \A i \in DOMAIN Val(r.v) : Tag(Val(r.v)[i]) = "dataclass"

(* C27: every typed configuration _deep_from_dict produces, enumeration
   members included, is taken by _deep_string_coerce once asdict has
   flattened it into the payload, and what is transmitted has string leaves
   only *)
C27_DecodedConfigurationCoerces ==
    (fn_pc \in {"coerced", "coerce raised"} /\ TypedConfiguration(fn_returned)) =>
        (fn_coerced.ok /\ IsWireTree(fn_coerced.v))

(* C26: two multitask invocations in one flow run that submit different task
   lists and were given no idempotency token submit different tokens *)
C26_DistinctInvocationsDistinctTokens ==
    \A i, j \in DOMAIN submissions :
        (/\ ~Truthy(CallerToken(i))
         /\ ~Truthy(CallerToken(j))
         /\ submissions[i].context.flow_run_id = submissions[j].context.flow_run_id
         /\ Get(submissions[i].json, "tasks") # Get(submissions[j].json, "tasks"))
            => SentToken(i) # SentToken(j)

-----------------------------------------------------------------------------
(* the payload run() builds on the task object as its constructor left it,
   from the arguments of this invocation *)
PayloadAsMade ==
    DeepStringCoerce(RunJson(made, DefaultsFromAttrs(made, call), ctx).v, "json")

MergesJson == task.kind \in {"DatabricksSubmitRun", "DatabricksRunNow"}

(* C24: the payload an invocation of DatabricksSubmitRun.run or
   DatabricksRunNow.run submits is the one the constructor's configuration and
   the arguments of that invocation give, whatever earlier invocations of the
   same task object were given *)
C24_InvocationsIndependent ==
    (MergesJson /\ Submitted) => (PayloadAsMade.ok /\ Sent = PayloadAsMade.v)

(* C25: when DatabricksSubmitRun.run or DatabricksRunNow.run has returned or
   failed, the mapping the caller passed as json, to the constructor or to
   run(), has the keys and values it had before the call *)
C25_CallerJsonUnchanged ==
    (MergesJson /\ Invoked /\ Finished) =>
        /\ caller_json.init = made.json
        /\ call.json # None => caller_json.run = call.json

-----------------------------------------------------------------------------
(* the payload a thread's own inputs give: its arguments on the task object
   as constructed *)
OwnPayload(th) ==
    DeepStringCoerce(
        SubmitRunJson(threads[th].made, DefaultsFromAttrs(threads[th].made, threads[th].call)),
        "json")

(* the poll interval a thread was given: its argument, or the task's *)
OwnInterval(th) ==
    IF Truthy(threads[th].call.polling_period_seconds)
    THEN threads[th].call.polling_period_seconds
    ELSE threads[th].made.polling_period_seconds

(* C21: of two invocations of run() that execute concurrently, on one task
   object or on two, each submits the payload merged from its own inputs and
   each sleeps for its own poll interval *)
C21_ConcurrentRunsIndependent ==
    \A th \in DOMAIN threads :
        /\ threads[th].sent # None => threads[th].sent = OwnPayload(th).v
        /\ \A i \in DOMAIN threads[th].slept : threads[th].slept[i] = OwnInterval(th)
====
